---- MODULE Spec2Model ----
(***************************************************************************)
(* Model of the two Streamlit front-ends of the AI underwriting assistant: *)
(*   chat_app.py  - the guided chat flow (one document at a time)          *)
(*   app.py       - the form flow (four uploaders on one page)             *)
(* A step of the model is one run of the script from its first line to    *)
(* its end, to st.rerun() or to an exception nobody catches.  st.session_  *)
(* state and the values of keyed widgets are the state kept between runs.  *)
(* The remote services are inputs: each request draws its response from a  *)
(* small set that covers every branch of the calling code.                 *)
(***************************************************************************)
EXTENDS Integers, Sequences, FiniteSets, TLC

VARIABLES
    front_end,         \* which script streamlit runs: "chat" or "form"
    rerun,             \* st.rerun() was called: the next run has no user input
    \* ---- chat_app.py: st.session_state
    app_started,
    messages,
    doc_upload_stage,
    upload_retries,
    uploader,          \* value of the keyed st.file_uploader widget
    \* ---- app.py: st.session_state
    status,
    msg,
    filename,
    final_status,
    final_result,
    f_uploader,        \* file names held by the four "{dtype}_uploader" widgets
    \* ---- observation of the last run (not read by the program)
    event,             \* what started the last run
    outcome,           \* how the remote operation of the last run ended
    sent,              \* requests issued by the last run
    reply,             \* what came back for the upload or analysis request of the last run
    uploaded,          \* documents uploaded successfully since the last reset
    attempts,          \* guided-flow uploads that came back with a result since the last reset
    analysis_calls,    \* final-analysis requests since the last reset
    prev               \* stage, retries and transcript length before the run

vars == <<front_end, rerun, app_started, messages, doc_upload_stage,
          upload_retries, uploader, status, msg, filename, final_status,
          final_result, f_uploader, event, outcome, sent, reply,
          uploaded, attempts, analysis_calls, prev>>

chat_vars == <<app_started, messages, doc_upload_stage, upload_retries, uploader>>
form_vars == <<status, msg, filename, final_status, final_result, f_uploader>>

----------------------------------------------------------------------------
(* Bounds *)

MaxRetries == 2        \* failed uploads per session that the model follows
MaxQuestions == 1      \* chat questions per session that the model follows

Files == {"a.pdf"}
Questions == {"q1", "q2"}

----------------------------------------------------------------------------
(* Remote responses *)

\* what requests.post can do: raise Timeout, raise ConnectionError, or return
\* a response with a status and a body
UploadBodies == {"undecodable", "json_list", "no_success", "success_true",
                 "success_false", "success_1", "success_0", "success_null",
                 "success_str"}

FlowBodies == {"undecodable", "json_list", "no_outputs", "outputs_empty",
               "outputs_null", "text_t1", "text_t2"}

Statuses == {200, 201, 404, 500}

Transport == {[kind |-> "timeout", status |-> 0, body |-> "none"],
              [kind |-> "connection", status |-> 0, body |-> "none"]}

UploadResponses ==
    Transport \cup [kind : {"http"}, status : Statuses, body : UploadBodies]

FlowResponses ==
    Transport \cup [kind : {"http"}, status : Statuses, body : FlowBodies]

NoReply == [kind |-> "none", status |-> 0, body |-> "none"]

\* Python results: a returned value or a raised exception
Raise(e) == [exc |-> e]
Value(v) == [exc |-> "none", value |-> v]

\* response.raise_for_status(): HTTPError for 4xx and 5xx only
raise_for_status(resp) == resp.status >= 400 /\ resp.status < 600

\* an entry of the transcript; raw is the response body quoted in the text
Content(kind, detail) == [kind |-> kind, detail |-> detail, raw |-> "none"]
Entry(role, content) == [role |-> role, content |-> content]

\* an outbound request
Request(op, url, param, value) ==
    [op |-> op, url |-> url, param |-> param, value |-> value]

----------------------------------------------------------------------------
(* chat_app.py: configuration *)

DOC_ORDER == <<"driving_license", "ssn", "bank_application", "bank_statement">>

\* DOC_INFO with the ssn entry pointing one stage too far
DOC_INFO_skip ==
    [s \in {"driving_license", "ssn", "bank_application", "bank_statement"} |->
        [prompt |-> Content("prompt", s),
         api_type |-> IF s \in {"driving_license", "ssn"} THEN "personal" ELSE "bank",
         next_stage |-> CASE s = "driving_license" -> "ssn"
                          [] s = "ssn" -> "bank_statement"
                          [] s = "bank_application" -> "bank_statement"
                          [] s = "bank_statement" -> "analysis_pending"]]

\* DOC_INFO with the prompt of bank_application pasted into the ssn entry
DOC_INFO_prompt ==
    [s \in {"driving_license", "ssn", "bank_application", "bank_statement"} |->
        [prompt |-> Content("prompt", IF s = "ssn" THEN "bank_application" ELSE s),
         api_type |-> IF s \in {"driving_license", "ssn"} THEN "personal" ELSE "bank",
         next_stage |-> CASE s = "driving_license" -> "ssn"
                          [] s = "ssn" -> "bank_application"
                          [] s = "bank_application" -> "bank_statement"
                          [] s = "bank_statement" -> "analysis_pending"]]

DOC_INFO ==
    [s \in {"driving_license", "ssn", "bank_application", "bank_statement"} |->
        CASE s = "driving_license" ->
                [prompt |-> Content("prompt", "driving_license"),
                 api_type |-> "personal", next_stage |-> "ssn"]
          [] s = "ssn" ->
                [prompt |-> Content("prompt", "ssn"),
                 api_type |-> "personal", next_stage |-> "bank_application"]
          [] s = "bank_application" ->
                [prompt |-> Content("prompt", "bank_application"),
                 api_type |-> "bank", next_stage |-> "bank_statement"]
          [] s = "bank_statement" ->
                [prompt |-> Content("prompt", "bank_statement"),
                 api_type |-> "bank", next_stage |-> "analysis_pending"]]

\* the stages in the order the flow is meant to visit them
StageOrder == DOC_ORDER \o <<"analysis_pending", "chat_active">>

StageIndex(s) == CHOOSE i \in 1..Len(StageOrder) : StageOrder[i] = s

----------------------------------------------------------------------------
(* chat_app.py: API call functions *)

\* lines 63-70: the endpoint and query parameter of an upload
upload_request(doc_type, api_type) ==
    IF api_type = "personal"
    THEN <<Request("upload", "/upload_personal_documents", "document_type", doc_type)>>
    ELSE IF api_type = "bank"
    THEN <<Request("upload", "/upload_bank_documents", "application_type", doc_type)>>
    ELSE <<>>

\* json.loads(response.text)['success']
json_success(body) ==
    CASE body = "undecodable"   -> Raise("JSONDecodeError")
      [] body = "json_list"     -> Raise("TypeError")
      [] body = "no_success"    -> Raise("KeyError")
      [] body = "success_true"  -> Value("true")
      [] body = "success_false" -> Value("false")
      [] body = "success_1"     -> Value("1")
      [] body = "success_0"     -> Value("0")
      [] body = "success_null"  -> Value("null")
      [] body = "success_str"   -> Value("str")

\* Python's x == True and x == False on a decoded JSON value
EqTrue(v) == v \in {"true", "1"}
EqFalse(v) == v \in {"false", "0"}
Truthy(v) == v \in {"true", "1", "str"}

\* what the function hands back: a (success, message) pair, or None when
\* control falls off the end of the try block
Pair(ok, m) == [ret |-> "pair", success |-> ok, message |-> m]
None == [ret |-> "None", success |-> FALSE, message |-> ""]

upload_file(doc_type, api_type, resp) ==
    IF api_type \notin {"personal", "bank"}
    THEN Pair(FALSE, "Invalid API type specified.")
    ELSE IF resp.kind # "http"
    THEN Pair(FALSE, "An unexpected error occurred")
    ELSE IF raise_for_status(resp)
    THEN Pair(FALSE, "HTTP Error")
    ELSE LET r == json_success(resp.body) IN
         IF r.exc # "none" THEN Pair(FALSE, "An unexpected error occurred")
         ELSE IF EqTrue(r.value) THEN Pair(TRUE, "True")
         ELSE IF EqFalse(r.value) THEN Pair(FALSE, "Incorrect file type provided")
         ELSE None

\* data['outputs'][0]['outputs'][0]['results']['message']['data']['text']
\* on response.json()
extract_text(body) ==
    CASE body = "undecodable"   -> Raise("JSONDecodeError")
      [] body = "json_list"     -> Raise("TypeError")
      [] body = "no_outputs"    -> Raise("KeyError")
      [] body = "outputs_empty" -> Raise("IndexError")
      [] body = "outputs_null"  -> Raise("TypeError")
      [] body = "text_t1"       -> Value("t1")
      [] body = "text_t2"       -> Value("t2")

analysis_request == <<Request("analysis", "uw_flow_url", "output_type", "chat")>>

\* every exception is caught and turned into the returned string, which
\* quotes str(e) and never the body of the response
run_final_analysis(resp) ==
    IF resp.kind # "http" THEN Content("analysis_error", "")
    ELSE IF raise_for_status(resp) THEN Content("analysis_error", "")
    ELSE LET r == extract_text(resp.body) IN
         IF r.exc = "none" THEN Content("text", r.value)
         ELSE Content("analysis_error", "")

\* a payload built from the transcript instead of the prompt alone
chat_request_history(user_prompt) ==
    <<Request("chat", "uw_chat_url", "messages",
              IF messages = <<>> THEN user_prompt
              ELSE messages[Len(messages)].content.kind)>>

chat_request(user_prompt) ==
    <<Request("chat", "uw_chat_url", "input_value", user_prompt)>>

\* RequestException covers timeouts, connection errors, HTTPError and the
\* JSONDecodeError of response.json(); KeyError and IndexError are caught
\* too; a TypeError is not
get_chatbot_response(user_prompt, resp) ==
    IF resp.kind # "http" THEN Value(Content("api_error", ""))
    ELSE IF raise_for_status(resp) THEN Value(Content("api_error", ""))
    ELSE LET r == extract_text(resp.body) IN
         CASE r.exc = "none" -> Value(Content("text", r.value))
           [] r.exc = "JSONDecodeError" -> Value(Content("api_error", ""))
           [] r.exc \in {"KeyError", "IndexError"} -> Value(Content("parsing_error", ""))
           [] OTHER -> Raise(r.exc)

----------------------------------------------------------------------------
(* Initial state: the session state after the first run of either script *)

\* the value of a file_uploader nobody has put a file in
NoFile == [key |-> <<"none", 0>>, name |-> ""]

AllDocs == <<"driving_license", "ssn", "application", "statement">>
DocTypes == {AllDocs[i] : i \in 1..Len(AllDocs)}

\* init_session_state of chat_app.py
init_session_state ==
    [app_started |-> FALSE, messages |-> <<>>,
     doc_upload_stage |-> DOC_ORDER[1], upload_retries |-> 0]

\* the session init loop of app.py
form_session_init ==
    [status |-> [d \in DocTypes |-> "Not Uploaded"],
     msg |-> [d \in DocTypes |-> ""],
     filename |-> [d \in DocTypes |-> ""],
     final_status |-> "not_clicked", final_result |-> Content("", "")]

Snapshot ==
    [stage |-> doc_upload_stage, retries |-> upload_retries,
     len |-> Len(messages)]

Init ==
    /\ front_end \in {"chat", "form"}
    /\ rerun = FALSE
    /\ app_started = init_session_state.app_started
    /\ messages = init_session_state.messages
    /\ doc_upload_stage = init_session_state.doc_upload_stage
    /\ upload_retries = init_session_state.upload_retries
    /\ uploader = NoFile
    /\ status = form_session_init.status
    /\ msg = form_session_init.msg
    /\ filename = form_session_init.filename
    /\ final_status = form_session_init.final_status
    /\ final_result = form_session_init.final_result
    /\ f_uploader = [d \in DocTypes |-> ""]
    /\ event = "init"
    /\ outcome = "none"
    /\ sent = <<>>
    /\ reply = NoReply
    /\ uploaded = <<>>
    /\ attempts = <<>>
    /\ analysis_calls = 0
    /\ prev = [stage |-> DOC_ORDER[1], retries |-> 0, len |-> 0]

\* what a run leaves for the observer
Observe(ev, out, reqs, rep) ==
    /\ event' = ev
    /\ outcome' = out
    /\ sent' = reqs
    /\ reply' = rep
    /\ prev' = Snapshot

----------------------------------------------------------------------------
(* chat_app.py: the script *)

\* lines 125-134: the begin button
Begin ==
    /\ front_end = "chat" /\ ~rerun
    /\ ~app_started
    /\ app_started' = TRUE
    /\ messages' = <<Entry("assistant", Content("intro", "")),
                     Entry("assistant", DOC_INFO[doc_upload_stage].prompt)>>
    /\ rerun' = TRUE
    /\ Observe("begin", "none", <<>>, NoReply)
    /\ UNCHANGED <<front_end, doc_upload_stage, upload_retries, uploader,
                   uploaded, attempts, analysis_calls>>
    /\ UNCHANGED form_vars

\* the loop stopping after the first key, as a dict would make it
deleted_keys_first(keys) == keys \cap {"app_started"}

\* lines 140-141: the keys the loop deletes; st.session_state.keys() walks a
\* copy of the state, so deleting while iterating reaches every key
deleted_keys(keys) == keys

SessionKeys == {"app_started", "messages", "doc_upload_stage", "upload_retries",
                "uploader"}

\* the value under `key` at the start of the next run: init_session_state
\* fills in what the loop deleted
AfterDelete(key, current, initial) ==
    IF key \in deleted_keys(SessionKeys) THEN initial ELSE current

\* lines 139-142: the Start Over button
StartOver ==
    /\ front_end = "chat" /\ ~rerun
    /\ app_started
    /\ app_started' = AfterDelete("app_started", app_started,
                                  init_session_state.app_started)
    /\ messages' = AfterDelete("messages", messages, init_session_state.messages)
    /\ doc_upload_stage' = AfterDelete("doc_upload_stage", doc_upload_stage,
                                       init_session_state.doc_upload_stage)
    /\ upload_retries' = AfterDelete("upload_retries", upload_retries,
                                     init_session_state.upload_retries)
    /\ uploader' = AfterDelete("uploader", uploader, NoFile)
    /\ rerun' = TRUE
    /\ uploaded' = <<>>
    /\ attempts' = <<>>
    /\ analysis_calls' = 0
    /\ Observe("start_over", "none", <<>>, NoReply)
    /\ UNCHANGED front_end
    /\ UNCHANGED form_vars

\* line 173 counting a failure twice
retries_after_failure_twice(retries) == retries + 2

\* line 173: st.session_state.upload_retries += 1
retries_after_failure(retries) == retries + 1

\* st.session_state.messages = [entry] where an append was meant
messages_assign(list, entry) == <<entry>>

\* st.session_state.messages.append(entry)
messages_append(list, entry) == Append(list, entry)

\* line 157: the key of the file_uploader
uploader_key(stage, retries) == <<stage, retries>>

\* lines 150-175: the document upload stage, in a run where the uploader
\* holds `widget`
DocumentUpload(ev, widget, resp) ==
    LET current_stage == doc_upload_stage
        info == DOC_INFO[current_stage]
        uploaded_file == widget # NoFile
        r == upload_file(current_stage, info.api_type, resp)
        reqs == upload_request(current_stage, info.api_type)
    IN  /\ uploader' = widget
        /\ IF ~uploaded_file
           THEN /\ rerun' = FALSE
                /\ Observe(ev, "none", <<>>, NoReply)
                /\ UNCHANGED <<app_started, messages, doc_upload_stage,
                               upload_retries, uploaded, attempts>>
           ELSE IF r.ret = "None"
           THEN \* success, msg = None: TypeError, the run ends here
                /\ rerun' = FALSE
                /\ Observe(ev, "escaped", reqs, resp)
                /\ UNCHANGED <<app_started, messages, doc_upload_stage,
                               upload_retries, uploaded, attempts>>
           ELSE IF r.success
           THEN /\ doc_upload_stage' = info.next_stage
                /\ messages' =
                     messages
                     \o <<Entry("user", Content("uploaded", widget.name))>>
                     \o (IF info.next_stage \in DOMAIN DOC_INFO
                         THEN <<Entry("assistant", DOC_INFO[info.next_stage].prompt)>>
                         ELSE <<Entry("assistant", Content("all_received", ""))>>)
                /\ rerun' = TRUE
                /\ uploaded' = Append(uploaded, current_stage)
                /\ attempts' = Append(attempts, [doc |-> current_stage, ok |-> TRUE])
                /\ Observe(ev, "success", reqs, resp)
                /\ UNCHANGED <<app_started, upload_retries>>
           ELSE /\ upload_retries < MaxRetries
                /\ messages' = messages_append(messages,
                       Entry("assistant", Content("upload_error", r.message)))
                /\ upload_retries' = retries_after_failure(upload_retries)
                /\ attempts' = Append(attempts, [doc |-> current_stage, ok |-> FALSE])
                /\ rerun' = TRUE
                /\ Observe(ev, "failure", reqs, resp)
                /\ UNCHANGED <<app_started, doc_upload_stage, uploaded>>
        /\ UNCHANGED <<front_end, analysis_calls>>
        /\ UNCHANGED form_vars

\* the uploader withheld after two failed uploads
SelectFile_capped ==
    /\ front_end = "chat" /\ ~rerun
    /\ app_started
    /\ doc_upload_stage \in DOMAIN DOC_INFO
    /\ upload_retries < 2
    /\ \E f \in Files, resp \in UploadResponses :
           DocumentUpload("select_file",
               [key |-> uploader_key(doc_upload_stage, upload_retries), name |-> f],
               resp)

\* the user puts a file into the uploader, which starts a run
SelectFile ==
    /\ front_end = "chat" /\ ~rerun
    /\ app_started
    /\ doc_upload_stage \in DOMAIN DOC_INFO
    /\ \E f \in Files, resp \in UploadResponses :
           DocumentUpload("select_file",
               [key |-> uploader_key(doc_upload_stage, upload_retries), name |-> f],
               resp)

\* the widget of this run has the value stored under its key, if any
WidgetValue(key) == IF uploader.key = key THEN uploader ELSE NoFile

\* a run started by st.rerun() before the begin button was pressed
RerunWelcome ==
    /\ front_end = "chat" /\ rerun
    /\ ~app_started
    /\ rerun' = FALSE
    /\ Observe("rerun", "none", <<>>, NoReply)
    /\ UNCHANGED <<front_end, uploaded, attempts, analysis_calls>>
    /\ UNCHANGED chat_vars
    /\ UNCHANGED form_vars

\* a run started by st.rerun() in a document stage
RerunUpload ==
    /\ front_end = "chat" /\ rerun
    /\ app_started
    /\ doc_upload_stage \in DOMAIN DOC_INFO
    /\ \E resp \in UploadResponses :
           DocumentUpload("rerun",
               WidgetValue(uploader_key(doc_upload_stage, upload_retries)), resp)

\* line 183 sending the flow back to the first document
after_analysis_back(current_stage) == "driving_license"

\* line 183 left out: the stage stays where it is
after_analysis_stay(current_stage) == current_stage

\* line 183: the stage after the analysis, whatever it returned
after_analysis(current_stage) == "chat_active"

\* the analysis stage entered only by a session that had no failed upload
AnalysisPending_clean ==
    /\ front_end = "chat" /\ rerun
    /\ app_started
    /\ doc_upload_stage = "analysis_pending"
    /\ upload_retries = 0
    /\ \E resp \in FlowResponses :
         LET analysis_result == run_final_analysis(resp) IN
           /\ messages' = messages
                  \o <<Entry("assistant", analysis_result),
                       Entry("assistant", Content("analysis_complete", ""))>>
           /\ Observe("rerun",
                      IF analysis_result.kind = "text" THEN "success" ELSE "failure",
                      analysis_request, resp)
    /\ doc_upload_stage' = after_analysis(doc_upload_stage)
    /\ analysis_calls' = analysis_calls + 1
    /\ uploader' = NoFile
    /\ rerun' = TRUE
    /\ UNCHANGED <<front_end, app_started, upload_retries, uploaded, attempts>>
    /\ UNCHANGED form_vars

\* lines 178-184
AnalysisPending ==
    /\ front_end = "chat" /\ rerun
    /\ app_started
    /\ doc_upload_stage = "analysis_pending"
    /\ \E resp \in FlowResponses :
         LET analysis_result == run_final_analysis(resp) IN
           /\ messages' = messages
                  \o <<Entry("assistant", analysis_result),
                       Entry("assistant", Content("analysis_complete", ""))>>
           /\ Observe("rerun",
                      IF analysis_result.kind = "text" THEN "success" ELSE "failure",
                      analysis_request, resp)
    /\ doc_upload_stage' = after_analysis(doc_upload_stage)
    /\ analysis_calls' = analysis_calls + 1
    /\ uploader' = NoFile
    /\ rerun' = TRUE
    /\ UNCHANGED <<front_end, app_started, upload_retries, uploaded, attempts>>
    /\ UNCHANGED form_vars

\* a run in chat_active without a submitted question
RerunChat ==
    /\ front_end = "chat" /\ rerun
    /\ app_started
    /\ doc_upload_stage = "chat_active"
    /\ rerun' = FALSE
    /\ Observe("rerun", "none", <<>>, NoReply)
    /\ UNCHANGED <<front_end, uploaded, attempts, analysis_calls>>
    /\ UNCHANGED chat_vars
    /\ UNCHANGED form_vars

QuestionsAsked ==
    Cardinality({i \in DOMAIN messages : messages[i].content.kind = "question"})

\* lines 187-197: a submitted question
Ask ==
    /\ front_end = "chat" /\ ~rerun
    /\ app_started
    /\ doc_upload_stage = "chat_active"
    /\ QuestionsAsked < MaxQuestions
    /\ \E prompt \in Questions, resp \in FlowResponses :
         LET response == get_chatbot_response(prompt, resp)
             asked == Append(messages, Entry("user", Content("question", prompt)))
         IN IF response.exc = "none"
            THEN /\ messages' = Append(asked, Entry("assistant", response.value))
                 /\ Observe("ask",
                        IF response.value.kind = "text" THEN "success" ELSE "failure",
                        chat_request(prompt), NoReply)
            ELSE \* the exception leaves get_chatbot_response and the script
                 /\ messages' = asked
                 /\ Observe("ask", "escaped", chat_request(prompt), NoReply)
    /\ rerun' = FALSE
    /\ UNCHANGED <<front_end, app_started, doc_upload_stage, upload_retries,
                   uploader, uploaded, attempts, analysis_calls>>
    /\ UNCHANGED form_vars

ChatNext ==
    \/ Begin
    \/ StartOver
    \/ SelectFile
    \/ RerunWelcome
    \/ RerunUpload
    \/ AnalysisPending
    \/ RerunChat
    \/ Ask

----------------------------------------------------------------------------
(* app.py: upload function *)

personal_docs == {"driving_license", "ssn"}
bank_docs == {"application", "statement"}

\* lines 215-224: the endpoint and query parameter of an upload
app_upload_request(dtype) ==
    IF dtype \in personal_docs
    THEN <<Request("upload", "/upload_personal_documents", "document_type", dtype)>>
    ELSE IF dtype \in bank_docs
    THEN <<Request("upload", "/upload_bank_documents", "application_type", dtype)>>
    ELSE <<>>

\* response.json().get(field, default): the body has to decode to an object
json_get(body) ==
    CASE body = "undecodable" -> Raise("JSONDecodeError")
      [] body = "json_list"   -> Raise("AttributeError")
      [] OTHER                -> Value("object")

\* lines 213-232: success is HTTP 200 with a body that decodes to an object
app_upload_file(dtype, resp) ==
    IF dtype \notin personal_docs \cup bank_docs
    THEN Pair(FALSE, "Invalid document type")
    ELSE IF resp.kind # "http"
    THEN Pair(FALSE, "exception")
    ELSE IF json_get(resp.body).exc # "none"
    THEN Pair(FALSE, "exception")
    ELSE IF resp.status = 200
    THEN Pair(TRUE, "Success")
    ELSE Pair(FALSE, "Status")

\* lines 352-370: the result string of the final analysis
app_final_result(resp) ==
    IF resp.kind = "timeout" THEN Content("timed_out", "")
    ELSE IF resp.kind # "http" THEN Content("unexpected_error", "")
    ELSE IF raise_for_status(resp)
    THEN [kind |-> "http_error", detail |-> "", raw |-> resp.body]
    ELSE LET r == extract_text(resp.body) IN
         IF r.exc = "none" THEN Content("text", r.value)
         ELSE IF r.exc \in {"JSONDecodeError", "KeyError", "IndexError"}
         THEN [kind |-> "parse_failed", detail |-> "", raw |-> resp.body]
         ELSE Content("unexpected_error", "")

----------------------------------------------------------------------------
(* app.py: the script *)

\* line 338 with any() where all() is meant
all_uploaded_any == \E d \in DocTypes : status[d] = "Success"

\* line 338
all_uploaded == \A d \in DocTypes : status[d] = "Success"

\* line 263 without the status test
Submitting_any_status(widgets) ==
    {i \in 1..Len(AllDocs) : widgets[AllDocs[i]] # ""}

\* the uploaders whose block at lines 263-272 would run, in page order
Submitting(widgets) ==
    {i \in 1..Len(AllDocs) :
        widgets[AllDocs[i]] # "" /\ status[AllDocs[i]] # "Success"}

FirstOf(S) == CHOOSE i \in S : \A j \in S : i <= j

\* a key that leaves out the document type, so every slot is written
set_slot_all(table, dtype, value) == [d \in DOMAIN table |-> value]

\* st.session_state[f"{dtype}_status"] = value, and the same for _msg and
\* _filename
set_slot(table, dtype, value) == [table EXCEPT ![dtype] = value]

\* lines 263-272 for the first uploader that holds a file and is not yet
\* marked Success; st.rerun() ends the run there
DocUploaderUi(ev, widgets, dtype, resp) ==
    LET r == app_upload_file(dtype, resp) IN
    /\ IF r.success
       THEN /\ status' = set_slot(status, dtype, "Success")
            /\ filename' = set_slot(filename, dtype, widgets[dtype])
            /\ uploaded' = Append(uploaded, dtype)
            /\ UNCHANGED attempts
            /\ Observe(ev, "success", app_upload_request(dtype), resp)
       ELSE /\ status' = set_slot(status, dtype, "Error")
            /\ Observe(ev, "failure", app_upload_request(dtype), resp)
            /\ UNCHANGED <<filename, uploaded, attempts>>
    /\ msg' = set_slot(msg, dtype, r.message)
    /\ rerun' = TRUE
    /\ UNCHANGED <<final_status, final_result, analysis_calls>>

\* lines 349-373: the request of the processing state
FinalProcessing(ev, resp) ==
    /\ final_result' = app_final_result(resp)
    /\ final_status' = "done"
    /\ analysis_calls' = analysis_calls + 1
    /\ rerun' = TRUE
    /\ Observe(ev,
               IF app_final_result(resp).kind = "text" THEN "success" ELSE "failure",
               analysis_request, resp)
    /\ UNCHANGED <<status, msg, filename, uploaded, attempts>>

\* one run of the script in which no button is pressed and the uploaders
\* hold `widgets`
FormRun(ev, widgets) ==
    /\ f_uploader' = widgets
    /\ IF Submitting(widgets) # {}
       THEN \E resp \in UploadResponses :
                DocUploaderUi(ev, widgets, AllDocs[FirstOf(Submitting(widgets))], resp)
       ELSE IF all_uploaded /\ final_status = "processing"
       THEN \E resp \in FlowResponses : FinalProcessing(ev, resp)
       ELSE /\ rerun' = FALSE
            /\ Observe(ev, "none", <<>>, NoReply)
            /\ UNCHANGED <<status, msg, filename, final_status, final_result,
                           uploaded, attempts, analysis_calls>>
    /\ UNCHANGED front_end
    /\ UNCHANGED <<app_started, messages, doc_upload_stage, upload_retries, uploader>>

\* the user puts a file into one of the four uploaders, which starts a run
FormSelectFile ==
    /\ front_end = "form" /\ ~rerun
    /\ \E d \in DocTypes, f \in Files :
           FormRun("select_file", [f_uploader EXCEPT ![d] = f])

\* a run started by st.rerun()
FormRerun ==
    /\ front_end = "form" /\ rerun
    /\ FormRun("rerun", f_uploader)

\* lines 344-347: the Launch AI Analysis button
Launch ==
    /\ front_end = "form" /\ ~rerun
    /\ all_uploaded
    /\ final_status = "not_clicked"
    /\ final_status' = "processing"
    /\ rerun' = TRUE
    /\ Observe("launch", "none", <<>>, NoReply)
    /\ UNCHANGED <<front_end, status, msg, filename, final_result, f_uploader,
                   uploaded, attempts, analysis_calls>>
    /\ UNCHANGED chat_vars

\* lines 380-384: every key of st.session_state is deleted, the widget values
\* with them; the next run starts with the session init
StartNewApplication ==
    /\ front_end = "form" /\ ~rerun
    /\ all_uploaded
    /\ final_status = "done"
    /\ status' = form_session_init.status
    /\ msg' = form_session_init.msg
    /\ filename' = form_session_init.filename
    /\ final_status' = form_session_init.final_status
    /\ final_result' = form_session_init.final_result
    /\ f_uploader' = [d \in DocTypes |-> ""]
    /\ rerun' = TRUE
    /\ uploaded' = <<>>
    /\ attempts' = <<>>
    /\ analysis_calls' = 0
    /\ Observe("start_over", "none", <<>>, NoReply)
    /\ UNCHANGED front_end
    /\ UNCHANGED chat_vars

FormNext ==
    \/ FormSelectFile
    \/ FormRerun
    \/ Launch
    \/ StartNewApplication

Next == ChatNext \/ FormNext

Spec == Init /\ [][Next]_vars

\* a file put into the uploader whose upload the service accepts
UploadSucceeds == SelectFile /\ outcome' = "success"

\* the run that a pending st.rerun() of the guided flow starts
PendingRun == RerunWelcome \/ RerunUpload \/ AnalysisPending \/ RerunChat

\* st.rerun() always starts the next run; the user keeps submitting files
\* and, at every document, an upload is accepted in the end
LiveSpec ==
    /\ Spec
    /\ WF_vars(PendingRun)
    /\ SF_vars(UploadSucceeds)

----------------------------------------------------------------------------
(* Properties *)

UploadSent == sent # <<>> /\ sent[1].op = "upload"
AnalysisSent == sent # <<>> /\ sent[1].op = "analysis"
ChatSent == sent # <<>> /\ sent[1].op = "chat"

LastMessage == messages[Len(messages)]

\* C1: in the guided flow a successful upload at document i of DOC_ORDER
\* moves the stage to document i+1, or to analysis_pending after the last
\* one, and whenever the stage is analysis_pending the successful uploads
\* since the last reset are exactly the four documents in that order.
C1_UploadAdvances ==
    front_end = "chat" =>
        /\ (UploadSent /\ outcome = "success") =>
              \E i \in 1..Len(DOC_ORDER) :
                  /\ prev.stage = DOC_ORDER[i]
                  /\ doc_upload_stage =
                        IF i < Len(DOC_ORDER) THEN DOC_ORDER[i + 1]
                        ELSE "analysis_pending"
        /\ doc_upload_stage = "analysis_pending" => uploaded = DOC_ORDER

C1_Witness ==
    /\ front_end = "chat"
    /\ doc_upload_stage = "analysis_pending"
    /\ UploadSent /\ outcome = "success"
    /\ prev.stage = "bank_statement"
    /\ upload_retries > 0

\* C2: in the guided flow every upload attempt that does not succeed leaves
\* the stage unchanged, adds exactly 1 to upload_retries and appends an
\* assistant error entry to the transcript.
C2_FailedUploadCounts ==
    (front_end = "chat" /\ UploadSent /\ outcome # "success") =>
        /\ doc_upload_stage = prev.stage
        /\ upload_retries = prev.retries + 1
        /\ Len(messages) = prev.len + 1
        /\ LastMessage.role = "assistant"
        /\ LastMessage.content.kind = "upload_error"

\* C3: in the guided flow every step that is not a reset leaves the stage
\* where it was or moves it to its immediate successor in StageOrder, and
\* chat_active is left only by a reset.
C3_StageMonotone ==
    (front_end = "chat" /\ event # "start_over") =>
        /\ StageIndex(doc_upload_stage) \in
              {StageIndex(prev.stage), StageIndex(prev.stage) + 1}
        /\ prev.stage = "chat_active" => doc_upload_stage = "chat_active"

C3_Witness ==
    /\ front_end = "chat"
    /\ event = "ask"
    /\ prev.stage = "chat_active"
    /\ doc_upload_stage = "chat_active"
    /\ upload_retries > 0

\* C4: the run that finds the stage at analysis_pending sends the analysis
\* request once, appends what came of it and moves to chat_active whatever
\* the outcome; that run is already scheduled when the stage becomes
\* analysis_pending, and no other run of a session sends the request.
C4_AnalysisOnce ==
    front_end = "chat" =>
        /\ analysis_calls <= 1
        /\ doc_upload_stage = "analysis_pending" => (analysis_calls = 0 /\ rerun)
        /\ doc_upload_stage = "chat_active" => analysis_calls = 1
        /\ AnalysisSent => prev.stage = "analysis_pending"
        /\ (prev.stage = "analysis_pending" /\ event # "start_over") =>
              /\ sent = analysis_request
              /\ doc_upload_stage = "chat_active"
              /\ Len(messages) = prev.len + 2
              /\ messages[prev.len + 1].role = "assistant"
              /\ messages[prev.len + 1].content.kind =
                    IF outcome = "success" THEN "text" ELSE "analysis_error"

C4_Witness ==
    /\ front_end = "chat"
    /\ prev.stage = "analysis_pending"
    /\ AnalysisSent /\ outcome = "failure"
    /\ doc_upload_stage = "chat_active"
    /\ analysis_calls = 1

\* C5: in chat_active every submitted question, whatever the chat request
\* does, extends the transcript by exactly two entries: the user's question
\* and then one assistant entry.
C5_AskAppendsTwo ==
    (front_end = "chat" /\ event = "ask") =>
        /\ Len(messages) = prev.len + 2
        /\ messages[prev.len + 1] =
              Entry("user", Content("question", sent[1].value))
        /\ messages[prev.len + 2].role = "assistant"

TruthyBodies == {"success_true", "success_1", "success_str"}

\* the message of a failed upload, where the front-end keeps it
FailureMessage ==
    IF front_end = "chat" THEN LastMessage.content.detail
    ELSE msg[sent[1].value]

\* C6: an upload is reported as a success exactly when the response has
\* status 200 and a truthy success field; everything else comes back as
\* (False, message) with a message that is not empty.
C6_UploadSuccessIff ==
    UploadSent =>
        /\ (outcome = "success") <=>
              /\ reply.kind = "http"
              /\ reply.status = 200
              /\ reply.body \in TruthyBodies
        /\ outcome # "success" => (outcome = "failure" /\ FailureMessage # "")

\* where a failure of the last request is shown to the user
FailureRecorded ==
    CASE UploadSent /\ front_end = "chat" ->
            /\ Len(messages) = prev.len + 1
            /\ LastMessage.role = "assistant"
            /\ LastMessage.content.kind = "upload_error"
      [] UploadSent /\ front_end = "form" ->
            /\ status[sent[1].value] = "Error"
            /\ msg[sent[1].value] # ""
      [] AnalysisSent /\ front_end = "chat" ->
            messages[prev.len + 1].content.kind = "analysis_error"
      [] AnalysisSent /\ front_end = "form" ->
            final_result.kind \in {"timed_out", "http_error", "parse_failed",
                                   "unexpected_error"}
      [] ChatSent ->
            /\ Len(messages) = prev.len + 2
            /\ LastMessage.role = "assistant"
            /\ LastMessage.content.kind \in {"api_error", "parsing_error"}

\* the session still offers the user the action that failed, or a new start
RetryOffered ==
    CASE UploadSent /\ front_end = "chat" ->
            doc_upload_stage = prev.stage /\ doc_upload_stage \in DOMAIN DOC_INFO
      [] UploadSent /\ front_end = "form" -> status[sent[1].value] # "Success"
      [] AnalysisSent /\ front_end = "chat" -> app_started
      [] AnalysisSent /\ front_end = "form" -> final_status = "done"
      [] ChatSent -> doc_upload_stage = "chat_active"

\* C7: every failure of an upload, analysis or chat request is turned into
\* a message kept in the transcript or the status fields, no exception
\* leaves the run, and the user can try again.
C7_FailuresSurface ==
    (sent # <<>> /\ outcome # "success") =>
        /\ outcome = "failure"
        /\ FailureRecorded
        /\ RetryOffered

\* C8: a run sends at most one request, and a run that no user action
\* started (the re-render after st.rerun()) sends no upload request.
C8_NoResubmit ==
    /\ Len(sent) <= 1
    /\ event = "rerun" => ~UploadSent

\* C9: every upload request is either the personal endpoint with
\* document_type in {driving_license, ssn} or the bank endpoint with
\* application_type in {application, statement}.
C9_UploadRouting ==
    \A i \in DOMAIN sent :
        sent[i].op = "upload" =>
            \/ /\ sent[i].url = "/upload_personal_documents"
               /\ sent[i].param = "document_type"
               /\ sent[i].value \in {"driving_license", "ssn"}
            \/ /\ sent[i].url = "/upload_bank_documents"
               /\ sent[i].param = "application_type"
               /\ sent[i].value \in {"application", "statement"}

\* C10: whatever happened before, the session after "start over" is the
\* initial one: not started, stage driving_license, empty transcript,
\* retry counter 0, four slots Not Uploaded, no analysis result; this holds
\* for every reset of a run, the second as much as the first.
C10_StartOverResets ==
    event = "start_over" =>
        /\ app_started = FALSE
        /\ messages = <<>>
        /\ doc_upload_stage = "driving_license"
        /\ upload_retries = 0
        /\ \A d \in DocTypes :
              status[d] = "Not Uploaded" /\ msg[d] = "" /\ filename[d] = ""
        /\ final_status = "not_clicked"
        /\ final_result.kind = ""

C10_Witness ==
    /\ front_end = "chat"
    /\ event = "start_over"
    /\ prev.retries > 0
    /\ prev.len > 2
    /\ messages = <<>>

TextBodies == {"text_t1", "text_t2"}

\* where the front-end keeps what the analysis returned
RecordedResult ==
    IF front_end = "chat" THEN messages[prev.len + 1].content ELSE final_result

\* C11: the recorded result of the final analysis is the text found at the
\* fixed path when the response has that shape, and after an HTTP error or a
\* parse failure it is a fallback message that quotes the raw response body.
C11_ResultRecorded ==
    (AnalysisSent /\ reply.kind = "http") =>
        IF reply.status < 400 /\ reply.body \in TextBodies
        THEN /\ RecordedResult.kind = "text"
             /\ RecordedResult.detail = (IF reply.body = "text_t1" THEN "t1" ELSE "t2")
        ELSE /\ RecordedResult.kind # "text"
             /\ RecordedResult.raw = reply.body

\* driving_license succeeds, ssn fails, ssn succeeds, bank_application
\* succeeds, bank_statement succeeds
Scenario ==
    <<[doc |-> "driving_license", ok |-> TRUE],
      [doc |-> "ssn", ok |-> FALSE],
      [doc |-> "ssn", ok |-> TRUE],
      [doc |-> "bank_application", ok |-> TRUE],
      [doc |-> "bank_statement", ok |-> TRUE]>>

ScenarioDone ==
    /\ front_end = "chat"
    /\ attempts = Scenario
    /\ UploadSent /\ outcome = "success"

\* C12 as stated: after the scenario the stage is analysis_pending, the
\* retry counter is 1 and the transcript has 9 entries.
C12_ScenarioNine ==
    ScenarioDone =>
        /\ doc_upload_stage = "analysis_pending"
        /\ upload_retries = 1
        /\ Len(messages) = 9

\* C12 amended: after the scenario the stage is analysis_pending, the retry
\* counter is 1 and the transcript has 11 entries (2 from the begin button,
\* 2 for each of the four successful uploads, 1 for the failed one).
C12_ScenarioEleven ==
    ScenarioDone =>
        /\ doc_upload_stage = "analysis_pending"
        /\ upload_retries = 1
        /\ Len(messages) = 11

C12_Witness == ScenarioDone /\ doc_upload_stage = "analysis_pending"

Range(sq) == {sq[i] : i \in DOMAIN sq}

\* the documents uploaded successfully before the last run
UploadedBefore ==
    IF UploadSent /\ outcome = "success"
    THEN SubSeq(uploaded, 1, Len(uploaded) - 1)
    ELSE uploaded

\* C13: between two resets no upload request is sent for a document that
\* was already uploaded successfully, so no document has two successful
\* uploads; in the guided flow and in the form flow.
C13_NoSecondUpload ==
    /\ \A i, j \in DOMAIN uploaded : i # j => uploaded[i] # uploaded[j]
    /\ UploadSent => sent[1].value \notin Range(UploadedBefore)

\* a file is put into an uploader of the form whose slot is already Success,
\* and the run sends nothing
C13_Witness ==
    /\ front_end = "form"
    /\ event = "select_file"
    /\ sent = <<>>
    /\ uploaded # <<>>
    /\ \E d \in DocTypes : status[d] = "Success" /\ f_uploader[d] # ""

IsPrefix(a, b) == Len(a) <= Len(b) /\ SubSeq(b, 1, Len(a)) = a

\* C14: once the guided session has begun, every step other than a reset
\* leaves the old transcript as a prefix of the new one.
C14_AppendOnly ==
    [][(front_end = "chat" /\ app_started /\ event' # "start_over")
           => IsPrefix(messages, messages')]_vars

C14_Witness ==
    /\ front_end = "chat"
    /\ app_started
    /\ event \in {"select_file", "rerun", "ask"}
    /\ prev.len >= 2
    /\ Len(messages) > prev.len
    /\ upload_retries > 0

SlotStatuses == {"Not Uploaded", "Success", "Error"}

SlotsWellFormed ==
    /\ DOMAIN status = DocTypes /\ DOMAIN msg = DocTypes /\ DOMAIN filename = DocTypes
    /\ Cardinality(DocTypes) = 4
    /\ \A d \in DocTypes : status[d] \in SlotStatuses

SlotChanged(d) ==
    status'[d] # status[d] \/ msg'[d] # msg[d] \/ filename'[d] # filename[d]

\* C15: the form session always has four slots with a status among Not
\* Uploaded, Success, Error; a run that sends an upload for one document
\* changes no other slot and not the analysis status or result, and a run
\* that sends no upload and is not a reset changes no slot.
C15_SlotFrame ==
    /\ [](front_end = "form" => SlotsWellFormed)
    /\ [][front_end = "form" =>
            /\ UploadSent' =>
                  /\ \A d \in DocTypes \ {sent'[1].value} : ~SlotChanged(d)
                  /\ final_status' = final_status
                  /\ final_result' = final_result
            /\ (~UploadSent' /\ event' # "start_over") =>
                  \A d \in DocTypes : ~SlotChanged(d)]_vars

C15_Witness ==
    /\ front_end = "form"
    /\ UploadSent
    /\ outcome = "failure"
    /\ status[sent[1].value] = "Error"
    /\ \E d \in DocTypes \ {sent[1].value} : status[d] = "Success"

\* C16: the chat request is a function of the submitted prompt alone: it is
\* the fixed endpoint with input_value set to the question just asked,
\* whatever the transcript, the retry count and the analysis result are, so
\* two sessions that ask the same question send the same request.
C16_PromptOnlyPayload ==
    (front_end = "chat" /\ ChatSent) =>
        sent = <<[op |-> "chat", url |-> "uw_chat_url", param |-> "input_value",
                  value |-> messages[prev.len + 1].content.detail]>>

C16_Witness ==
    /\ front_end = "chat"
    /\ ChatSent
    /\ upload_retries > 0
    /\ messages[prev.len + 1].content.detail = "q2"

\* an upload through the current uploader that moves the stage on
UploadAdvancing ==
    SelectFile /\ doc_upload_stage' = StageOrder[StageIndex(doc_upload_stage) + 1]

\* C17: in every document stage, after any number of failed uploads, the
\* uploader is still offered once the page has rendered and an upload that
\* succeeds moves the stage on.
C17_RetryUnbounded ==
    (front_end = "chat" /\ app_started /\ ~rerun
        /\ doc_upload_stage \in Range(DOC_ORDER))
    => ENABLED UploadAdvancing

\* as many failures in a row at the first document as the model follows
C17_Witness ==
    /\ front_end = "chat" /\ app_started /\ ~rerun
    /\ doc_upload_stage = "driving_license"
    /\ upload_retries = MaxRetries
    /\ Len(attempts) = MaxRetries
    /\ uploaded = <<>>

PromptEntry(stage) == Entry("assistant", Content("prompt", stage))

Occurrences(entry) ==
    Cardinality({i \in DOMAIN messages : messages[i] = entry})

LaterDocs(stage) ==
    {DOC_ORDER[j] : j \in (StageIndex(stage) + 1)..Len(DOC_ORDER)}

\* C18: a successful upload in the guided flow appends a user confirmation
\* and then, when the new stage is a document stage, that stage's prompt;
\* so in a begun session at a document stage the prompt of that stage is in
\* the transcript exactly once and the prompt of no later stage is in it.
C18_PromptOnce ==
    front_end = "chat" =>
        /\ (UploadSent /\ outcome = "success") =>
              /\ Len(messages) = prev.len + 2
              /\ messages[prev.len + 1].role = "user"
              /\ messages[prev.len + 1].content.kind = "uploaded"
              /\ doc_upload_stage \in Range(DOC_ORDER) =>
                    messages[prev.len + 2] = PromptEntry(doc_upload_stage)
        /\ (app_started /\ doc_upload_stage \in Range(DOC_ORDER)) =>
              /\ Occurrences(PromptEntry(doc_upload_stage)) = 1
              /\ \A s \in LaterDocs(doc_upload_stage) :
                    Occurrences(PromptEntry(s)) = 0

C18_Witness ==
    /\ front_end = "chat"
    /\ UploadSent /\ outcome = "success"
    /\ doc_upload_stage = "bank_application"
    /\ upload_retries > 0

\* C19: every upload attempt of the guided flow, successful or not, changes
\* the pair (stage, upload_retries) that keys the uploader, so no two
\* attempts of a session go through the same widget.
C19_FreshWidget ==
    (front_end = "chat" /\ UploadSent) =>
        <<doc_upload_stage, upload_retries>> # <<prev.stage, prev.retries>>

\* C20: in the form, final_status is processing or done only with all four
\* slots Success; between resets it moves only not_clicked -> processing ->
\* done; the analysis request is sent only by the run that finds it at
\* processing, and at most once per application.
C20_FinalStatus ==
    /\ [](front_end = "form" =>
            /\ final_status \in {"processing", "done"} =>
                  \A d \in DocTypes : status[d] = "Success"
            /\ analysis_calls <= 1
            /\ AnalysisSent => final_status = "done")
    /\ [][(front_end = "form" /\ event' # "start_over") =>
            /\ \/ final_status' = final_status
               \/ final_status = "not_clicked" /\ final_status' = "processing"
               \/ final_status = "processing" /\ final_status' = "done"
            /\ analysis_calls' # analysis_calls =>
                  /\ final_status = "processing"
                  /\ analysis_calls' = analysis_calls + 1]_vars

C20_Witness ==
    /\ front_end = "form"
    /\ AnalysisSent
    /\ final_status = "done"
    /\ analysis_calls = 1

\* what the user can do to the guided page
UserAction == Begin \/ StartOver \/ SelectFile \/ Ask

\* C21: a begun guided session whose user keeps submitting files, each
\* document's upload succeeding in the end, reaches chat_active unless it is
\* reset first. At analysis_pending no user action is possible, the analysis
\* run is pending, and every step taken there ends in chat_active, so the
\* session goes from analysis_pending to chat_active by itself.
C21_ReachesChatActive ==
    /\ [](front_end = "chat" /\ doc_upload_stage = "analysis_pending"
            => rerun /\ ~ENABLED UserAction /\ ENABLED AnalysisPending)
    /\ [][front_end = "chat" /\ doc_upload_stage = "analysis_pending"
            => doc_upload_stage' = "chat_active"]_vars
    /\ (front_end = "chat" /\ app_started)
          ~> (doc_upload_stage = "chat_active" \/ ~app_started)

\* chat_active entered by the analysis run of a session that had a failed upload
C21_Witness ==
    /\ front_end = "chat" /\ app_started
    /\ doc_upload_stage = "chat_active"
    /\ prev.stage = "analysis_pending"
    /\ upload_retries = MaxRetries
    /\ Len(uploaded) = Len(DOC_ORDER)

====
